---- MODULE Spec2Model ----
(***************************************************************************)
(* Model of pkg/client/transaction/controller.go: the transaction          *)
(* execution Controller (sign -> broadcast -> confirm).                    *)
(*                                                                         *)
(* The controller's fields are the state.  The collaborators (key store,   *)
(* ledger device, gRPC client) are modelled by the set of outcomes a call  *)
(* can have; counters record how often each collaborator was called.       *)
(***************************************************************************)
EXTENDS Integers, Sequences, FiniteSets, TLC

\* ------------------------------------------------------------------ bounds
\* largest ConfirmationWaitTime explored
MaxWait == 2
\* number of calls a client of the controller makes on it
MaxCalls == 2

\* --------------------------------------------------------------- go values
\* a nil error
NilErr == [isNil |-> TRUE, text |-> <<>>]
\* errors.New / fmt.Errorf: a non-nil error carrying its text
Errorf(text) == [isNil |-> FALSE, text |-> text]

\* a nil *api.Return
NilReturn == [isNil |-> TRUE, Code |-> 0, Message |-> <<>>]
\* a nil *core.ResourceReceipt
NilResourceReceipt == [isNil |-> TRUE, EnergyUsage |-> 0, NetUsage |-> 0]
\* &core.ResourceReceipt{}
EmptyResourceReceipt == [isNil |-> FALSE, EnergyUsage |-> 0, NetUsage |-> 0]
\* a nil *core.TransactionInfo
NilTransactionInfo ==
    [isNil |-> TRUE, Result |-> 0, ResMessage |-> <<>>, Receipt |-> NilResourceReceipt]
\* &core.TransactionInfo{}
EmptyTransactionInfo ==
    [isNil |-> FALSE, Result |-> 0, ResMessage |-> <<>>, Receipt |-> NilResourceReceipt]

\* the signing strategies of behavior.SigningImpl
SignerImpl == {"Software", "Ledger"}

\* message bytes carried by acknowledgments and receipts
Messages == {<<>>, <<"b", "a">>}

\* raw payloads: the fields of the transaction's raw data; a payload that
\* is not valid cannot be encoded
RawPayloads ==
    { [fields |-> <<0, 2>>, valid |-> TRUE],
      [fields |-> <<2, 1>>, valid |-> FALSE] }


\* ------------------------------------------------------------ collaborators
RECURSIVE EncodeFields(_, _)
\* the wire form of the fields: (tag, value) for every non-default field
EncodeFields(fields, i) ==
    IF i > Len(fields) THEN <<>>
    ELSE (IF fields[i] = 0 THEN <<>> ELSE <<8 * i, fields[i]>>)
         \o EncodeFields(fields, i + 1)

\* proto.Marshal of the raw data
Marshal(raw) ==
    IF raw.valid
    THEN [data |-> EncodeFields(raw.fields, 1), err |-> NilErr]
    ELSE [data |-> <<>>, err |-> Errorf(<<"proto: cannot marshal">>)]

RECURSIVE Digest(_, _, _)
\* sha256 over the bytes, reduced to a one-byte digest
Digest(data, i, h) ==
    IF i > Len(data) THEN <<h>>
    ELSE Digest(data, i + 1, (h * 31 + data[i] + 7) % 256)

\* the hexadecimal digits
HexDigit(n) ==
    <<"0","1","2","3","4","5","6","7","8","9","a","b","c","d","e","f">>[n + 1]

RECURSIVE HexOf(_, _)
\* two hexadecimal digits per byte
HexOf(bytes, i) ==
    IF i > Len(bytes) THEN <<>>
    ELSE <<HexDigit(bytes[i] \div 16), HexDigit(bytes[i] % 16)>> \o HexOf(bytes, i + 1)

\* common.ToHex
ToHex(bytes) == <<"0x">> \o HexOf(bytes, 1)

\* keystore.KeyStore.SignTx: a signing error, or a transaction that carries
\* the same raw data and one more signature; the returned object is either
\* the object passed in or a new one
KsSignTx(tx) ==
    { [tx |-> tx, err |-> Errorf(<<"could not decrypt key">>)] }
    \cup { [tx |-> [id |-> i, raw |-> tx.raw, Signature |-> Append(tx.Signature, s)],
            err |-> NilErr] : i \in {tx.id, tx.id + 1}, s \in {"ks"} }

\* ledger.SignTx: a device error or one signature, made with the sender's
\* key or with the key of another account on the device
LedgerSignTx(data) ==
    { [sig |-> "", err |-> Errorf(<<"ledger: device not found">>)] }
    \cup { [sig |-> s, err |-> NilErr] : s \in {"hw", "hw_other"} }

\* the signature recovers to the address of Sender.Account
RecoversToSender(sig) == sig # "hw_other"

\* client.GrpcClient.Broadcast: a transport error or an acknowledgment
Broadcast(tx) ==
    { [result |-> NilReturn, err |-> Errorf(<<"rpc error">>)] }
    \cup { [result |-> [isNil |-> FALSE, Code |-> 0, Message |-> <<>>], err |-> NilErr] }
    \cup { [result |-> [isNil |-> FALSE, Code |-> 1, Message |-> m], err |-> NilErr] :
             m \in Messages }

\* client.GrpcClient.GetTransactionInfoByID: a lookup error or a receipt
GetTransactionInfoByID(hash) ==
    { [txi |-> NilTransactionInfo, err |-> Errorf(<<"transaction info not found">>)] }
    \cup { [txi |-> [isNil |-> FALSE, Result |-> 0, ResMessage |-> <<>>,
                     Receipt |-> [isNil |-> FALSE, EnergyUsage |-> 1, NetUsage |-> 0]],
            err |-> NilErr] }
    \cup { [txi |-> [isNil |-> FALSE, Result |-> 1, ResMessage |-> m,
                     Receipt |-> [isNil |-> FALSE, EnergyUsage |-> 1, NetUsage |-> 0]],
            err |-> NilErr] : m \in Messages }

\* ------------------------------------------------------------------- state
VARIABLES
    ExecutionError,   \* Controller.ExecutionError
    resultError,      \* Controller.resultError
    Tx,               \* Controller.Tx
    Behavior,         \* Controller.Behavior
    Result,           \* Controller.Result
    Receipt,          \* Controller.Receipt
    pc,               \* where the controller's single thread of control is
    inExec,           \* TRUE while ExecuteTransaction is running
    start,            \* TxConfirmation's remaining budget
    txHash,           \* TxConfirmation's txHash
    ret,              \* what the last ExecuteTransaction returned
    hashRet,          \* what the last TransactionHash returned
    tx0,              \* the transaction the controller was constructed with
    hashedTx,         \* the transaction the last TransactionHash was called on
    lastKs,           \* what the last KeyStore.SignTx returned
    lastHw,           \* what the last ledger.SignTx returned
    lastBcast,        \* what the last Client.Broadcast returned
    lastQuery,        \* what the last Client.GetTransactionInfoByID returned
    history,          \* "new", "exec" (one ExecuteTransaction only), "mixed"
    calls,            \* calls made on the controller so far
    ksCalls,          \* calls of KeyStore.SignTx
    hwCalls,          \* calls of ledger.SignTx
    bcastCalls,       \* calls of Client.Broadcast
    queryCalls,       \* calls of Client.GetTransactionInfoByID
    sleeps            \* one-second sleeps of the polling loop

fields == <<ExecutionError, resultError, Tx, Behavior, Result, Receipt>>
locals == <<pc, inExec, start, txHash, ret, hashRet>>
ghosts == <<tx0, hashedTx, lastKs, lastHw, lastBcast, lastQuery, history, calls, ksCalls, hwCalls, bcastCalls, queryCalls, sleeps>>
vars == <<ExecutionError, resultError, Tx, Behavior, Result, Receipt,
          pc, inExec, start, txHash, ret, hashRet,
          tx0, hashedTx, lastKs, lastHw, lastBcast, lastQuery,
          history, calls, ksCalls, hwCalls, bcastCalls, queryCalls, sleeps>>

\* no value returned yet
None == [none |-> TRUE]

\* ------------------------------------------------------------ construction
\* NewController with options that set the behavior
Init ==
    /\ ExecutionError = NilErr
    /\ resultError = NilErr
    /\ \E raw \in RawPayloads, sigs \in {<<>>, <<"s0">>} :
          Tx = [id |-> 1, raw |-> raw, Signature |-> sigs]
    /\ \E d \in BOOLEAN, s \in SignerImpl, w \in 0..MaxWait :
          Behavior = [DryRun |-> d, SigningImpl |-> s, ConfirmationWaitTime |-> w]
    /\ Result = NilReturn
    /\ Receipt = NilTransactionInfo
    /\ pc = "idle"
    /\ inExec = FALSE
    /\ start = 0
    /\ txHash = <<>>
    /\ ret = None
    /\ hashRet = None
    /\ tx0 = Tx
    /\ hashedTx = None
    /\ lastKs = None
    /\ lastHw = None
    /\ lastBcast = None
    /\ lastQuery = None
    /\ history = "new"
    /\ calls = 0
    /\ ksCalls = 0
    /\ hwCalls = 0
    /\ bcastCalls = 0
    /\ queryCalls = 0
    /\ sleeps = 0

\* -------------------------------------------------------------- operations
\* GetRawData
GetRawData(tx) == Marshal(tx.raw)

\* TransactionHash, on a transaction whose signatures are hashed as well
TransactionHashWithSignatures(tx) ==
    LET r == GetRawData(tx)
    IN  IF r.err # NilErr THEN [hash |-> <<>>, err |-> r.err]
        ELSE [hash |-> ToHex(Digest(r.data, 1, Len(tx.Signature))), err |-> NilErr]

\* TransactionHash
TransactionHash(tx) ==
    LET r == GetRawData(tx)
    IN  IF r.err # NilErr THEN [hash |-> <<>>, err |-> r.err]
        ELSE [hash |-> ToHex(Digest(r.data, 1, 0)), err |-> NilErr]

\* GetResultError
GetResultError == resultError

\* a stage is entered by a direct call, or by ExecuteTransaction at at
Entered(at) ==
    \/ pc = "idle" /\ calls < MaxCalls
    \/ pc = at

\* where control goes when a stage returns: to ExecuteTransaction's next
\* statement, or to the client
After(next) == IF inExec THEN next ELSE "idle"

\* the bookkeeping of a call: a direct call ends the controller's fresh use
Called ==
    /\ calls' = IF pc = "idle" THEN calls + 1 ELSE calls
    /\ history' = IF pc = "idle" THEN "mixed" ELSE history

\* the client calls TransactionHash
CallTransactionHash ==
    /\ pc = "idle"
    /\ hashRet' = TransactionHash(Tx)
    /\ hashedTx' = Tx
    /\ UNCHANGED <<fields, pc, inExec, start, txHash, ret, tx0,
                   lastKs, lastHw, lastBcast, lastQuery, history, calls, ksCalls, hwCalls, bcastCalls, queryCalls, sleeps>>

\* SignTxForSending
SignTxForSending ==
    /\ Entered("sign_sw")
    /\ Called
    /\ pc' = After("send")
    /\ IF ExecutionError # NilErr
       THEN UNCHANGED <<ExecutionError, Tx, ksCalls, lastKs>>
       ELSE /\ ksCalls' = ksCalls + 1
            /\ \E out \in KsSignTx(Tx) :
                 /\ lastKs' = out
                 /\ IF out.err # NilErr
                    THEN ExecutionError' = out.err /\ Tx' = Tx
                    ELSE Tx' = out.tx /\ ExecutionError' = ExecutionError
    /\ UNCHANGED <<resultError, Behavior, Result, Receipt, inExec, start, txHash,
                   ret, hashRet, tx0, hashedTx, lastHw, lastBcast, lastQuery,
                   hwCalls, bcastCalls, queryCalls, sleeps>>

\* the signature list, replaced by the new signature
AddSignatureReplacing(sigs, sig) == <<sig>>

\* the signature list after "add signature"
AddSignature(sigs, sig) == Append(sigs, sig)

\* HardwareSignTxForSending
HardwareSignTxForSending ==
    /\ Entered("sign_hw")
    /\ Called
    /\ pc' = After("send")
    /\ IF ExecutionError # NilErr
       THEN UNCHANGED <<ExecutionError, Tx, hwCalls, lastHw>>
       ELSE /\ hwCalls' = hwCalls + 1
            /\ \E out \in LedgerSignTx(GetRawData(Tx).data) :
                 /\ lastHw' = out
                 /\ IF out.err # NilErr
                    THEN ExecutionError' = out.err /\ Tx' = Tx
                    ELSE /\ Tx' = [Tx EXCEPT !.Signature = AddSignature(@, out.sig)]
                         /\ ExecutionError' = ExecutionError
    /\ UNCHANGED <<resultError, Behavior, Result, Receipt, inExec, start, txHash,
                   ret, hashRet, tx0, hashedTx, lastKs, lastBcast, lastQuery,
                   ksCalls, bcastCalls, queryCalls, sleeps>>

\* SendSignedTx's early return, when it checks the dry run only
SendSkippedDryRunOnly == Behavior.DryRun

\* SendSignedTx's early return
SendSkipped == ExecutionError # NilErr \/ Behavior.DryRun

\* the error of a rejected broadcast, without the acknowledgment's message
BadTransactionNoMessage(result) == Errorf(<<"bad transaction: ">>)

\* the error SendSignedTx makes of a rejected broadcast
BadTransaction(result) == Errorf(<<"bad transaction: ">> \o result.Message)

\* the acknowledgment kept in Result, when a rejected one is dropped
StoredResultAcceptedOnly(old, result) == IF result.Code # 0 THEN old ELSE result

\* the acknowledgment SendSignedTx keeps in Result
StoredResult(old, result) == result

\* SendSignedTx
SendSignedTx ==
    /\ Entered("send")
    /\ Called
    /\ pc' = After("confirm")
    /\ IF SendSkipped
       THEN UNCHANGED <<ExecutionError, Result, bcastCalls, lastBcast>>
       ELSE /\ bcastCalls' = bcastCalls + 1
            /\ \E out \in Broadcast(Tx) :
                 /\ lastBcast' = out
                 /\ IF out.err # NilErr
                    THEN ExecutionError' = out.err /\ Result' = Result
                    ELSE /\ ExecutionError' = IF out.result.Code # 0
                                              THEN BadTransaction(out.result)
                                              ELSE ExecutionError
                         /\ Result' = StoredResult(Result, out.result)
    /\ UNCHANGED <<resultError, Tx, Behavior, Receipt, inExec, start, txHash,
                   ret, hashRet, tx0, hashedTx, lastKs, lastHw, lastQuery,
                   ksCalls, hwCalls, queryCalls, sleeps>>

\* TxConfirmation's early return, when it checks the dry run only
ConfirmationSkippedDryRunOnly == Behavior.DryRun

\* TxConfirmation's early return, when it checks the error only
ConfirmationSkippedErrorOnly == ExecutionError # NilErr

\* TxConfirmation's early return
ConfirmationSkipped == ExecutionError # NilErr \/ Behavior.DryRun

\* polling also with a zero wait time
PollsAlways(wait) == wait >= 0

\* whether TxConfirmation polls for the receipt
Polls(wait) == wait > 0

\* the receipt's status test, inverted
OnChainFailureInverted(txi) == txi.Result = 0

\* the receipt's status test, true of every receipt
OnChainFailureAnyStatus(txi) == txi.Result >= 0

\* the receipt reports that the execution failed
OnChainFailure(txi) == txi.Result # 0

\* the polling loop gives up
BudgetExhausted(s) == s < 0

\* a receipt counts as found only while the budget lasts
FoundWithinBudget(out, s) == out.err = NilErr /\ s >= 0

\* the receipt query found the receipt
Found(out, s) == out.err = NilErr

\* the budget, left as it is
NextBudgetStuck(s) == s

\* the budget after one more second
NextBudget(s) == s - 1

\* no sequence of MaxCalls calls makes more receipt queries than this
MaxQueries == MaxCalls * (MaxWait + 2)

\* the error of a confirmation that timed out
TimeoutError(wait) ==
    Errorf(<<"could not confirm transaction after ", ToString(wait), " seconds">>)

\* TxConfirmation up to its first receipt query
TxConfirmation ==
    /\ Entered("confirm")
    /\ Called
    /\ IF ConfirmationSkipped
       THEN /\ pc' = After("return")
            /\ UNCHANGED <<ExecutionError, Receipt, start, txHash>>
       ELSE IF Polls(Behavior.ConfirmationWaitTime)
       THEN LET h == TransactionHash(Tx)
            IN  IF h.err # NilErr
                THEN /\ ExecutionError' = Errorf(<<"could not get Tx hash">>)
                     /\ pc' = After("return")
                     /\ UNCHANGED <<Receipt, start, txHash>>
                ELSE /\ txHash' = h.hash
                     /\ start' = Behavior.ConfirmationWaitTime
                     /\ pc' = "polling"
                     /\ UNCHANGED <<ExecutionError, Receipt>>
       ELSE /\ Receipt' = [EmptyTransactionInfo EXCEPT !.Receipt = EmptyResourceReceipt]
            /\ pc' = After("return")
            /\ UNCHANGED <<ExecutionError, start, txHash>>
    /\ UNCHANGED <<resultError, Tx, Behavior, Result, inExec, ret, hashRet,
                   tx0, hashedTx, lastKs, lastHw, lastBcast, lastQuery,
                   ksCalls, hwCalls, bcastCalls, queryCalls, sleeps>>

\* one iteration of TxConfirmation's polling loop
PollLoop ==
    /\ pc = "polling"
    /\ queryCalls < MaxQueries
    /\ queryCalls' = queryCalls + 1
    /\ \E out \in GetTransactionInfoByID(txHash) :
         /\ lastQuery' = out
         /\ IF Found(out, start)
            THEN /\ resultError' = IF OnChainFailure(out.txi)
                                   THEN Errorf(out.txi.ResMessage)
                                   ELSE resultError
                 /\ Receipt' = out.txi
                 /\ pc' = After("return")
                 /\ start' = 0
                 /\ txHash' = <<>>
                 /\ UNCHANGED <<ExecutionError, sleeps>>
            ELSE IF BudgetExhausted(start)
            THEN /\ ExecutionError' = TimeoutError(Behavior.ConfirmationWaitTime)
                 /\ pc' = After("return")
                 /\ start' = 0
                 /\ txHash' = <<>>
                 /\ UNCHANGED <<resultError, Receipt, sleeps>>
            ELSE /\ sleeps' = sleeps + 1
                 /\ start' = NextBudget(start)
                 /\ UNCHANGED <<ExecutionError, resultError, Receipt, pc, txHash>>
    /\ UNCHANGED <<Tx, Behavior, Result, inExec, ret, hashRet,
                   tx0, hashedTx, lastKs, lastHw, lastBcast,
                   history, calls, ksCalls, hwCalls, bcastCalls>>

\* the switch on SigningImpl, with its cases exchanged
SigningStageExchanged(impl) == IF impl = "Software" THEN "sign_hw" ELSE "sign_sw"

\* the switch on SigningImpl
SigningStage(impl) == IF impl = "Software" THEN "sign_sw" ELSE "sign_hw"

\* ExecuteTransaction is called and selects the signing stage
ExecuteTransaction ==
    /\ pc = "idle"
    /\ calls < MaxCalls
    /\ calls' = calls + 1
    /\ history' = IF history = "new" THEN "exec" ELSE "mixed"
    /\ inExec' = TRUE
    /\ ret' = None
    /\ pc' = SigningStage(Behavior.SigningImpl)
    /\ UNCHANGED <<fields, start, txHash, hashRet, tx0, hashedTx,
                   lastKs, lastHw, lastBcast, lastQuery,
                   ksCalls, hwCalls, bcastCalls, queryCalls, sleeps>>

\* ExecuteTransaction returns
ExecuteTransactionReturn ==
    /\ pc = "return"
    /\ ret' = ExecutionError
    /\ inExec' = FALSE
    /\ pc' = "idle"
    /\ UNCHANGED <<fields, start, txHash, hashRet, ghosts>>

\* ------------------------------------------------------------ specification
Next ==
    \/ CallTransactionHash
    \/ SignTxForSending
    \/ HardwareSignTxForSending
    \/ SendSignedTx
    \/ TxConfirmation
    \/ PollLoop
    \/ ExecuteTransaction
    \/ ExecuteTransactionReturn

Spec == Init /\ [][Next]_vars

\* the steps of one call on a fresh controller: ExecuteTransaction, or
\* TxConfirmation called directly
OneCallNext ==
    \/ history = "new" /\ ExecuteTransaction
    \/ inExec /\ SignTxForSending
    \/ inExec /\ HardwareSignTxForSending
    \/ inExec /\ SendSignedTx
    \/ (inExec \/ history = "new") /\ TxConfirmation
    \/ PollLoop
    \/ ExecuteTransactionReturn

\* a step of the call that is under way
Running == pc # "idle" /\ OneCallNext

\* one call on a fresh controller, whose thread keeps running: every
\* collaborator call and every sleep returns
LiveSpec == Init /\ [][OneCallNext]_vars /\ WF_vars(Running)

\* ------------------------------------------------------------------ claims
\* t contains m as a contiguous part
Contains(t, m) ==
    \E i \in 1..(Len(t) - Len(m) + 1) : SubSeq(t, i, i + Len(m) - 1) = m

\* ExecuteTransaction was the only call on the controller and has returned
Executed == history = "exec" /\ pc = "idle" /\ ret # None

\* the receipt TxConfirmation makes up when it does not poll
StubReceipt == [EmptyTransactionInfo EXCEPT !.Receipt = EmptyResourceReceipt]

\* C1: once ExecutionError is set, no step changes ExecutionError,
\* resultError, Tx, Result or Receipt or calls a collaborator, and an
\* ExecuteTransaction that returns then returns that error.
C1_ShortCircuit ==
    [][ExecutionError # NilErr =>
         /\ UNCHANGED <<ExecutionError, resultError, Tx, Result, Receipt,
                        ksCalls, hwCalls, bcastCalls, queryCalls>>
         /\ (ret' # ret /\ ret' # None => ret' = ExecutionError)]_vars

\* C1 witness: a direct SendSignedTx failed, and an ExecuteTransaction
\* called afterwards signed nothing, sent nothing and returned that error
C1_Witness ==
    /\ pc = "idle"
    /\ ret # None
    /\ ret # NilErr
    /\ ret = ExecutionError
    /\ ksCalls = 0
    /\ hwCalls = 0
    /\ bcastCalls = 1
    /\ queryCalls = 0

\* C2 (as claimed): during and after ExecuteTransaction on a fresh
\* controller, ExecutionError # nil implies Result and Receipt are nil.
C2_ErrorImpliesUnset ==
    (history = "exec" /\ ExecutionError # NilErr)
        => (Result = NilReturn /\ Receipt = NilTransactionInfo)

\* C3 (as claimed): after a dry run whose signing succeeded, Receipt is a
\* non-nil empty receipt and ExecuteTransaction returned nil.
C3_DryRunReceipt ==
    (Executed /\ Behavior.DryRun /\ ExecutionError = NilErr)
        => (/\ ~Receipt.isNil
            /\ Receipt.Result = 0
            /\ Receipt.Receipt.EnergyUsage = 0
            /\ Receipt.Receipt.NetUsage = 0
            /\ ret = NilErr)

\* C4: in a dry run Client.Broadcast and Client.GetTransactionInfoByID are
\* never called and Result stays nil.
C4_DryRunNoNetwork ==
    Behavior.DryRun => (bcastCalls = 0 /\ queryCalls = 0 /\ Result = NilReturn)

\* C4 witness: a dry run with a positive wait time has returned
C4_Witness ==
    /\ Executed
    /\ Behavior.DryRun
    /\ Behavior.ConfirmationWaitTime > 0
    /\ ksCalls + hwCalls = 1

\* C5 (as claimed): with wait time N >= 1, an accepted broadcast and receipt
\* queries that all fail, exactly N+1 queries are made, then the timeout
\* error is set and returned and Receipt stays nil.
C5_TimeoutQueries ==
    (/\ Executed
     /\ Behavior.ConfirmationWaitTime >= 1
     /\ tx0.raw.valid
     /\ ~Result.isNil
     /\ Result.Code = 0
     /\ Receipt.isNil)
        => (/\ queryCalls = Behavior.ConfirmationWaitTime + 1
            /\ ExecutionError = TimeoutError(Behavior.ConfirmationWaitTime)
            /\ ret = ExecutionError)

\* C6: with wait time 0, no dry run and an accepted broadcast, no receipt
\* query is made, Receipt is the empty receipt with an empty resource
\* receipt, both errors are nil and ExecuteTransaction returns nil.
C6_ZeroWait ==
    (/\ history = "exec"
     /\ Behavior.ConfirmationWaitTime = 0)
        => (/\ queryCalls = 0
            /\ pc # "polling"
            /\ (/\ Executed
                /\ ~Behavior.DryRun
                /\ lastBcast # None
                /\ lastBcast.err = NilErr
                /\ lastBcast.result.Code = 0)
                   => (/\ Receipt = StubReceipt
                       /\ ExecutionError = NilErr
                       /\ resultError = NilErr
                       /\ ret = NilErr))

\* C6 witness: such an execution has returned
C6_Witness ==
    /\ Executed
    /\ Behavior.ConfirmationWaitTime = 0
    /\ ~Behavior.DryRun
    /\ lastBcast # None
    /\ lastBcast.err = NilErr
    /\ lastBcast.result.Code = 0

\* a receipt query returned a receipt with a non-zero status
FailedReceiptFound ==
    /\ lastQuery # None
    /\ lastQuery.err = NilErr
    /\ lastQuery.txi.Result # 0

\* C7: when a receipt query returns a receipt with non-zero status,
\* ExecuteTransaction returns nil, GetResultError is not nil and Receipt is
\* that receipt.
C7_InformationalError ==
    (Executed /\ FailedReceiptFound)
        => (/\ ret = NilErr
            /\ ExecutionError = NilErr
            /\ GetResultError # NilErr
            /\ Receipt = lastQuery.txi)

\* C7 witness: such an execution has returned, after a failed first query
C7_Witness ==
    /\ Executed
    /\ FailedReceiptFound
    /\ queryCalls = 2
    /\ Result.Code = 0

\* the broadcast was rejected with a message
RejectedWithMessage ==
    /\ lastBcast # None
    /\ lastBcast.err = NilErr
    /\ lastBcast.result.Code # 0
    /\ lastBcast.result.Message # <<>>

\* C8: when the broadcast is rejected with a non-empty message,
\* ExecutionError contains the message and is what ExecuteTransaction
\* returns, no receipt query is made, and Receipt and resultError stay nil.
C8_BroadcastRejection ==
    (history = "exec" /\ RejectedWithMessage)
        => (/\ ExecutionError # NilErr
            /\ Contains(ExecutionError.text, lastBcast.result.Message)
            /\ queryCalls = 0
            /\ Receipt = NilTransactionInfo
            /\ resultError = NilErr
            /\ (Executed => ret = ExecutionError))

\* C8 witness: such an execution with a positive wait time has returned
C8_Witness ==
    /\ Executed
    /\ RejectedWithMessage
    /\ Behavior.ConfirmationWaitTime > 0

\* C9: in an execution resultError # nil implies Receipt # nil and
\* ExecutionError = nil; a step that sets resultError stores a receipt with
\* non-zero status that a query returned without error, and leaves
\* ExecutionError alone.
C9_ResultErrorNeedsReceipt ==
    /\ [](history = "exec" =>
            (resultError # NilErr => (~Receipt.isNil /\ ExecutionError = NilErr)))
    /\ [][resultError' # resultError =>
            /\ lastQuery'.err = NilErr
            /\ Receipt' = lastQuery'.txi
            /\ ~Receipt'.isNil
            /\ Receipt'.Result # 0
            /\ ExecutionError' = ExecutionError]_vars

\* C9 witness: an execution has set resultError
C9_Witness ==
    /\ history = "exec"
    /\ resultError # NilErr
    /\ ~Receipt.isNil

\* C10: every value TransactionHash returns is the hash of the transaction
\* the controller was constructed with, whatever was signed in between, and
\* a call of TransactionHash changes no field of the controller.
C10_HashStable ==
    /\ [](hashRet # None => hashRet = TransactionHash(tx0))
    /\ [][hashRet' # hashRet \/ hashedTx' # hashedTx => UNCHANGED fields]_vars

\* C10 witness: TransactionHash returned a hash for a transaction that was
\* signed by the key store and by the ledger device
C10_Witness ==
    /\ hashRet # None
    /\ hashRet.err = NilErr
    /\ hashedTx.Signature = tx0.Signature \o <<"ks", "hw">>

\* the signing stage of the execution has returned
SigningDone == pc \notin {"sign_sw", "sign_hw"}

\* C11: an execution calls exactly one signer exactly once, the one that
\* SigningImpl selects (the key store for Software, the ledger device for
\* Ledger) and never the other, and it does so before any broadcast.
C11_OneSigningStrategy ==
    history = "exec" =>
        /\ Behavior.SigningImpl = "Software" =>
              (hwCalls = 0 /\ ksCalls = IF SigningDone THEN 1 ELSE 0)
        /\ Behavior.SigningImpl = "Ledger" =>
              (ksCalls = 0 /\ hwCalls = IF SigningDone THEN 1 ELSE 0)
        /\ bcastCalls > 0 => ksCalls + hwCalls = 1

\* C11 witness: an execution with the ledger device signed once and then
\* broadcast
C11_Witness ==
    /\ Executed
    /\ Behavior.SigningImpl = "Ledger"
    /\ hwCalls = 1
    /\ ksCalls = 0
    /\ bcastCalls = 1

\* C12 (as claimed): a signature of the hardware signer that does not
\* recover to the sender sets ExecutionError, is not appended to
\* Tx.Signature, and the transaction is not broadcast.
C12_SignatureVerified ==
    /\ \A i \in 1..Len(Tx.Signature) : RecoversToSender(Tx.Signature[i])
    /\ (history = "exec" /\ lastHw # None /\ lastHw.err = NilErr
          /\ ~RecoversToSender(lastHw.sig))
          => (ExecutionError # NilErr /\ bcastCalls = 0)

\* C13: the polling loop ends, with the receipt stored or with the timeout
\* error set, and every call that is under way returns.
C13_PollingTerminates ==
    /\ (pc = "polling") ~>
          (/\ pc # "polling"
           /\ \/ (lastQuery # None /\ lastQuery.err = NilErr /\ Receipt = lastQuery.txi)
              \/ ExecutionError = TimeoutError(Behavior.ConfirmationWaitTime))
    /\ (pc # "idle") ~> (pc = "idle")

\* C13 witness: an execution whose receipt queries all failed has returned
\* the timeout error
C13_Witness ==
    /\ Executed
    /\ Behavior.ConfirmationWaitTime = MaxWait
    /\ ret = TimeoutError(MaxWait)
    /\ sleeps > 0

\* C14 (as claimed): the polling loop of an execution sleeps at most
\* ConfirmationWaitTime times.
C14_SleepsWithinBudget ==
    history = "exec" => sleeps <= Behavior.ConfirmationWaitTime

\* C15: a failed receipt query sets ExecutionError only when the budget is
\* used up and is retried otherwise; a query that succeeds stores its
\* receipt and ends the polling at once, whatever the budget; an execution
\* that timed out had no successful query.
C15_FirstSuccessEndsPolling ==
    /\ [][queryCalls' # queryCalls =>
            IF lastQuery'.err = NilErr
            THEN /\ Receipt' = lastQuery'.txi
                 /\ pc' # "polling"
                 /\ ExecutionError' = ExecutionError
            ELSE /\ start >= 0 => (pc' = "polling" /\ ExecutionError' = ExecutionError)
                 /\ ExecutionError' # ExecutionError =>
                       ExecutionError' = TimeoutError(Behavior.ConfirmationWaitTime)]_vars
    /\ [](history = "exec" =>
            /\ (lastQuery # None /\ lastQuery.err = NilErr) => pc # "polling"
            /\ ExecutionError = TimeoutError(Behavior.ConfirmationWaitTime) =>
                  (lastQuery # None /\ lastQuery.err # NilErr /\ Receipt.isNil))

\* C15 witness: the last query the budget allows found the receipt
C15_Witness ==
    /\ Executed
    /\ Behavior.ConfirmationWaitTime > 0
    /\ queryCalls = Behavior.ConfirmationWaitTime + 2
    /\ lastQuery.err = NilErr
    /\ Receipt = lastQuery.txi
    /\ ExecutionError = NilErr

\* C16: a successful software signing makes Tx the transaction the key
\* store returned; a successful hardware signing keeps the Tx object and its
\* raw data and appends the returned signature to the signature list;
\* neither changes Result, Receipt, resultError or ExecutionError.
C16_SigningEffects ==
    [][/\ (ksCalls' # ksCalls /\ lastKs'.err = NilErr) =>
             /\ Tx' = lastKs'.tx
             /\ UNCHANGED <<Result, Receipt, resultError, ExecutionError>>
       /\ (hwCalls' # hwCalls /\ lastHw'.err = NilErr) =>
             /\ Tx'.id = Tx.id
             /\ Tx'.raw = Tx.raw
             /\ Tx'.Signature = Tx.Signature \o <<lastHw'.sig>>
             /\ UNCHANGED <<Result, Receipt, resultError, ExecutionError>>]_vars

\* C16 witness: the key store returned a new transaction object, and the
\* ledger device then signed it
C16_Witness ==
    /\ Tx.id # tx0.id
    /\ tx0.Signature = <<"s0">>
    /\ Tx.Signature = <<"s0", "ks", "hw">>

\* the signer that was called returned an error
SignerFailed ==
    \/ lastKs # None /\ lastKs.err # NilErr
    \/ lastHw # None /\ lastHw.err # NilErr

\* C17: when the selected signer fails, ExecutionError is the signer's
\* error, Tx is unchanged, nothing is broadcast or queried, and
\* ExecuteTransaction returns that error.
C17_SigningFailure ==
    (history = "exec" /\ SignerFailed)
        => (/\ ExecutionError = IF Behavior.SigningImpl = "Software"
                                THEN lastKs.err ELSE lastHw.err
            /\ Tx = tx0
            /\ bcastCalls = 0
            /\ queryCalls = 0
            /\ (Executed => ret = ExecutionError))

\* C17 witness: an execution whose ledger device failed has returned
C17_Witness ==
    /\ Executed
    /\ Behavior.SigningImpl = "Ledger"
    /\ lastHw # None
    /\ lastHw.err # NilErr
    /\ ~Behavior.DryRun

\* C18 (as claimed): when the raw data cannot be encoded, the hardware
\* signing stage sets ExecutionError without calling the hardware signer,
\* appending or broadcasting, and the confirmation stage sets ExecutionError
\* without a receipt query and leaves Receipt nil.
C18_EncodingFailureFatal ==
    (history = "exec" /\ ~tx0.raw.valid)
        => (/\ hwCalls = 0
            /\ (Behavior.SigningImpl = "Ledger" /\ SigningDone) =>
                  (ExecutionError # NilErr /\ Tx = tx0 /\ bcastCalls = 0)
            /\ queryCalls = 0
            /\ pc # "polling"
            /\ (Executed /\ ~Behavior.DryRun /\ Polls(Behavior.ConfirmationWaitTime)) =>
                  (ExecutionError # NilErr /\ Receipt.isNil))

\* the signer that was called returned without error
SignerSucceeded ==
    \/ lastKs # None /\ lastKs.err = NilErr
    \/ lastHw # None /\ lastHw.err = NilErr

\* the broadcast was accepted
BroadcastAccepted ==
    /\ lastBcast # None
    /\ lastBcast.err = NilErr
    /\ lastBcast.result.Code = 0

\* C19: in an execution Broadcast is called at most once and only after a
\* signing that succeeded, and a receipt is queried only after a broadcast
\* that returned no error and code 0.
C19_CallOrder ==
    history = "exec" =>
        /\ bcastCalls <= 1
        /\ bcastCalls = 1 => (SigningDone /\ SignerSucceeded /\ ksCalls + hwCalls = 1)
        /\ (queryCalls > 0 \/ pc = "polling") => (bcastCalls = 1 /\ BroadcastAccepted)

\* C19 witness: an execution signed, broadcast and then queried twice
C19_Witness ==
    /\ Executed
    /\ bcastCalls = 1
    /\ queryCalls = 2

\* C20: in an execution Result is non-nil exactly if Broadcast returned
\* without error, and then it is the returned acknowledgment, whatever its
\* code; after a transport error ExecutionError is that error and Result
\* is nil.
C20_ResultIsAcknowledgment ==
    history = "exec" =>
        /\ ~Result.isNil <=> (lastBcast # None /\ lastBcast.err = NilErr)
        /\ (lastBcast # None /\ lastBcast.err = NilErr) => Result = lastBcast.result
        /\ (lastBcast # None /\ lastBcast.err # NilErr) =>
              (ExecutionError = lastBcast.err /\ Result = NilReturn)
        /\ (lastBcast # None) = (bcastCalls = 1)

\* C20 witness: an execution whose broadcast was rejected has returned with
\* the rejection in Result
C20_Witness ==
    /\ Executed
    /\ ~Result.isNil
    /\ Result.Code # 0
    /\ Result = lastBcast.result

\* --------------------------------------------------------------- type check
TypeOK ==
    /\ pc \in {"idle", "sign_sw", "sign_hw", "send", "confirm", "polling", "return"}
    /\ inExec \in BOOLEAN
    /\ history \in {"new", "exec", "mixed"}
    /\ calls \in 0..MaxCalls
    /\ start \in -1..MaxWait
    /\ queryCalls <= MaxQueries
    /\ pc = "polling" => queryCalls < MaxQueries
    /\ pc = "polling" => ExecutionError = NilErr
====
